---- MODULE Spec2Model ----
(***************************************************************************)
(* TwoCivSim (sim.py): two civilizations, each with population, resources  *)
(* and tech level, evolve turn by turn and fight or cooperate.             *)
(*                                                                         *)
(* Python floats are modelled as fixed-point numbers with three decimals:  *)
(* the integer x stands for the real x / ONE.  Every product and quotient  *)
(* of the source is computed by Mul and Div, which truncate to three       *)
(* decimals and never leave the 32-bit range of the model checker.         *)
(***************************************************************************)
EXTENDS Integers, Sequences, FiniteSets

\* ------------------------------------------------------------ bounds ----
MaxTurns == 5          \* largest turn limit passed to run_simulation
MaxCalls == 2          \* method calls a caller makes outside run_simulation
MaxApiTurns == 1       \* turn limit of a run started after such calls

\* -------------------------------------------------- fixed-point reals ----
ONE == 1000

Abs(x) == IF x < 0 THEN -x ELSE x
Min(a, b) == IF a <= b THEN a ELSE b
Max(a, b) == IF a >= b THEN a ELSE b

\* largest fixed-point number: products and quotients saturate at HUGE.
\* Populations, resources, tech levels and strengths stay far below it (see
\* InRange); only the uncapped combat losses reach it, and the code caps
\* those with min(0.9 * x, loss).
HUGE == 2000000 * ONE

\* F(e) and F(e1, e2), with each argument evaluated exactly once: the
\* arguments are bound by a quantifier over a singleton set. The arithmetic
\* operators and the strengths of the interaction phase are evaluated so.
Once(e, F(_)) == CHOOSE r \in {F(x) : x \in {e}} : TRUE
Once2(e1, e2, F(_, _)) == CHOOSE r \in {F(x, y) : x \in {e1}, y \in {e2}} : TRUE

\* a * b for non-negative fixed-point a, b (floor of a*b/ONE)
MulVal(a, b) ==
    LET a1 == a \div ONE
        a0 == a % ONE
        b1 == b \div ONE
        b0 == b % ONE
    IN  IF b1 + 1 > (HUGE \div ONE) \div (a1 + 1) THEN HUGE
        ELSE a1 * b1 * ONE + a1 * b0 + a0 * b1 + (a0 * b0) \div ONE

Mul(a, b) == Once2(a, b, MulVal)

\* <<q, m>> stands for q * b + m with m < b; add x < b to it
AddModVal(p, x, b) ==
    IF p[2] >= b - x THEN <<p[1] + 1, p[2] - (b - x)>> ELSE <<p[1], p[2] + x>>

AddMod(p, x, b) ==
    CHOOSE r \in {AddModVal(pv, xv, bv) : pv \in {p}, xv \in {x}, bv \in {b}} : TRUE

Dbl(p, b) ==
    CHOOSE r \in {AddModVal(<<2 * pv[1], pv[2]>>, pv[2], bv) :
                  pv \in {p}, bv \in {b}} : TRUE

\* <<(10 * r) \div b, (10 * r) % b>> for r < b, without leaving 32 bits
Times10(r, b) == Dbl(AddMod(Dbl(Dbl(<<0, r>>, b), b), r, b), b)

RECURSIVE DivDigits(_, _, _)
DivDigits(r, b, k) ==
    IF k = 0 THEN 0
    ELSE CHOOSE q \in {t[1] * (10 ^ (k - 1)) + DivDigits(t[2], b, k - 1) :
                       t \in {Times10(r, b)}} : TRUE

\* a / b for non-negative fixed-point a and positive b (floor of a*ONE/b)
DivVal(a, b) ==
    IF a \div b >= HUGE \div ONE THEN HUGE
    ELSE (a \div b) * ONE + DivDigits(a % b, b, 3)

Div(a, b) == Once2(a, b, DivVal)

RECURSIVE IsqrtIter(_, _, _)
IsqrtIter(n, lo, hi) ==
    IF hi - lo <= 1 THEN lo
    ELSE CHOOSE r \in {IF mid * mid <= n THEN IsqrtIter(n, mid, hi)
                                         ELSE IsqrtIter(n, lo, mid) :
                       mid \in {(lo + hi) \div 2}} : TRUE

\* square root of a non-negative fixed-point number
Sqrt(x) == Once(x * ONE, LAMBDA n : IsqrtIter(n, 0, 46341))

\* --------------------------------------------- simulation constants ----
INITIAL_POPULATION == 1000 * ONE
INITIAL_RESOURCES == 500 * ONE
INITIAL_TECH_LEVEL == ONE

POP_GROWTH_RATE_BASE == 10
RESOURCE_GATHER_BASE == 500
TECH_IMPROVEMENT_BASE == 10

CONFLICT_THRESHOLD_AGG == 6000
COOPERATION_THRESHOLD_COOP == 12000
STRENGTH_DIFF_AGG_MOD == 1500

POP_RESOURCE_COST == 100
TECH_RESOURCE_COST == 50000

COMBAT_LOSS_BASE == 100
COOP_RESOURCE_BONUS == 50
COOP_TECH_BONUS == 20

\* x ** TECH_COMBAT_FACTOR with TECH_COMBAT_FACTOR = 1.5: x * sqrt(x)
PowTechCombat(x) == Once(x, LAMBDA v : Mul(v, Sqrt(v)))

\* ------------------------------------------------------ Civilization ----
\* Civilization.__init__ that takes tech_rate as given
NewCivilization_raw_tech_rate(name, intelligence, tech_rate, aggressiveness, cooperation) ==
    [ name           |-> name,
      intelligence   |-> Max(ONE, intelligence),
      tech_rate      |-> tech_rate,
      aggressiveness |-> Max(0, aggressiveness),
      cooperation    |-> Max(0, cooperation),
      population     |-> INITIAL_POPULATION,
      resources      |-> INITIAL_RESOURCES,
      tech_level     |-> INITIAL_TECH_LEVEL,
      is_alive       |-> TRUE ]

\* Civilization.__init__
NewCivilization(name, intelligence, tech_rate, aggressiveness, cooperation) ==
    [ name           |-> name,
      intelligence   |-> Max(ONE, intelligence),
      tech_rate      |-> Max(100, tech_rate),
      aggressiveness |-> Max(0, aggressiveness),
      cooperation    |-> Max(0, cooperation),
      population     |-> INITIAL_POPULATION,
      resources      |-> INITIAL_RESOURCES,
      tech_level     |-> INITIAL_TECH_LEVEL,
      is_alive       |-> TRUE ]

\* calculate_strength() that leaves the tech_level out
calculate_strength_no_tech(c) ==
    IF ~c.is_alive THEN 0
    ELSE c.population

calculate_strength(c) ==
    IF ~c.is_alive THEN 0
    ELSE Mul(c.population, PowTechCombat(c.tech_level))

\* gather_resources() that leaves the population out of what is gathered
gather_resources_no_population(c) ==
    IF ~c.is_alive THEN c
    ELSE LET gathered == Mul(RESOURCE_GATHER_BASE,
                             ONE + Div(c.tech_level, 10 * ONE))
         IN  [c EXCEPT !.resources = c.resources + gathered]

gather_resources(c) ==
    IF ~c.is_alive THEN c
    ELSE LET gathered == Mul(Mul(c.population, RESOURCE_GATHER_BASE),
                             ONE + Div(c.tech_level, 10 * ONE))
         IN  [c EXCEPT !.resources = c.resources + gathered]

\* die() that forgets to reset tech_level
die_keeps_tech(c) ==
    [c EXCEPT !.is_alive = FALSE, !.population = 0, !.resources = 0]

die(c) ==
    [c EXCEPT !.is_alive = FALSE, !.population = 0,
              !.resources = 0, !.tech_level = 0]

\* TRUE when consume_resources prints the resource-shortage line
Shortage(c) ==
    c.is_alive /\ c.resources - Mul(c.population, POP_RESOURCE_COST) < 0

\* consume_resources() that loses population at the rate of consumption
\* (factor 1.0 in place of 1.5)
consume_resources_slow(c) ==
    IF ~c.is_alive THEN c
    ELSE LET consumed == Mul(c.population, POP_RESOURCE_COST)
             res1 == c.resources - consumed
         IN  IF res1 < 0
             THEN LET deficit == Abs(res1)
                      pop_loss == Min(c.population,
                                      Mul(Div(deficit, POP_RESOURCE_COST), ONE))
                      pop1 == c.population - pop_loss
                      c1 == [c EXCEPT !.population = pop1, !.resources = 0]
                  IN  IF pop1 <= 0 THEN die(c1) ELSE c1
             ELSE [c EXCEPT !.resources = res1]

\* consume_resources() without "self.resources = 0"
consume_resources_no_clamp(c) ==
    IF ~c.is_alive THEN c
    ELSE LET consumed == Mul(c.population, POP_RESOURCE_COST)
             res1 == c.resources - consumed
         IN  IF res1 < 0
             THEN LET deficit == Abs(res1)
                      pop_loss == Min(c.population,
                                      Mul(Div(deficit, POP_RESOURCE_COST), 1500))
                      pop1 == c.population - pop_loss
                      c1 == [c EXCEPT !.population = pop1, !.resources = res1]
                  IN  IF pop1 <= 0 THEN die(c1) ELSE c1
             ELSE [c EXCEPT !.resources = res1]

consume_resources(c) ==
    IF ~c.is_alive THEN c
    ELSE LET consumed == Mul(c.population, POP_RESOURCE_COST)
             res1 == c.resources - consumed
         IN  IF res1 < 0
             THEN LET deficit == Abs(res1)
                      pop_loss == Min(c.population,
                                      Mul(Div(deficit, POP_RESOURCE_COST), 1500))
                      pop1 == c.population - pop_loss
                      c1 == [c EXCEPT !.population = pop1, !.resources = 0]
                  IN  IF pop1 <= 0 THEN die(c1) ELSE c1
             ELSE [c EXCEPT !.resources = res1]

\* grow_population() without the test "self.resources <= 0"
grow_population_any_resources(c) ==
    IF ~c.is_alive THEN c
    ELSE LET resource_factor ==
                 Max(0, ONE + Div(c.resources,
                         Mul(Mul(c.population, POP_RESOURCE_COST), 5 * ONE) + ONE))
             growth == Mul(Mul(Mul(c.population, POP_GROWTH_RATE_BASE),
                               resource_factor),
                           ONE + Div(c.cooperation, 20 * ONE))
         IN  [c EXCEPT !.population = c.population + growth]

grow_population(c) ==
    IF ~c.is_alive \/ c.resources <= 0 THEN c
    ELSE LET resource_factor ==
                 Max(0, ONE + Div(c.resources,
                         Mul(Mul(c.population, POP_RESOURCE_COST), 5 * ONE) + ONE))
             growth == Mul(Mul(Mul(c.population, POP_GROWTH_RATE_BASE),
                               resource_factor),
                           ONE + Div(c.cooperation, 20 * ONE))
         IN  [c EXCEPT !.population = c.population + growth]

\* develop_technology() with "self.tech_level -= tech_points_gained"
develop_technology_minus(c) ==
    IF ~c.is_alive \/ c.resources < TECH_RESOURCE_COST THEN c
    ELSE LET potential0 == Mul(Mul(Mul(c.intelligence, c.tech_rate),
                                   TECH_IMPROVEMENT_BASE),
                               Div(c.population, 1000 * ONE))
             tech_points_potential ==
                 Div(potential0, ONE + Mul(c.tech_level, 100))
             resources_to_spend ==
                 Min(c.resources, Mul(tech_points_potential, TECH_RESOURCE_COST))
             tech_points_gained == Div(resources_to_spend, TECH_RESOURCE_COST)
         IN  [c EXCEPT !.resources = c.resources - resources_to_spend,
                       !.tech_level = c.tech_level - tech_points_gained]

develop_technology(c) ==
    IF ~c.is_alive \/ c.resources < TECH_RESOURCE_COST THEN c
    ELSE LET potential0 == Mul(Mul(Mul(c.intelligence, c.tech_rate),
                                   TECH_IMPROVEMENT_BASE),
                               Div(c.population, 1000 * ONE))
             tech_points_potential ==
                 Div(potential0, ONE + Mul(c.tech_level, 100))
             resources_to_spend ==
                 Min(c.resources, Mul(tech_points_potential, TECH_RESOURCE_COST))
             tech_points_gained == Div(resources_to_spend, TECH_RESOURCE_COST)
         IN  [c EXCEPT !.resources = c.resources - resources_to_spend,
                       !.tech_level = c.tech_level + tech_points_gained]


\* ------------------------------------------------------------- state ----
VARIABLES
    civ,            \* civ[1], civ[2]: the two Civilization objects
    pc,             \* position of the caller / of run_simulation
    num_turns,      \* argument of run_simulation
    turn,           \* loop variable of run_simulation
    ci,             \* index of the civilization in the internal phase
    calls,          \* number of calls the caller has made so far
    lastop,         \* <<civilization, method>> of the last method executed
    printed,        \* lines printed by the last step
    ops,            \* methods and interaction executed in the current turn
    interaction,    \* outcome of the interaction phase of the current turn
    pre,            \* both civilizations as they entered the interaction phase
    combat,         \* attacker, defender and the four losses of the last combat
    ended           \* end-of-simulation lines printed by the current run

vars == <<civ, pc, num_turns, turn, ci, calls, lastop, printed, ops,
          interaction, pre, combat, ended>>

Civs == {1, 2}
Other(i) == 3 - i

\* constructor arguments (name, intelligence, tech_rate, aggressiveness,
\* cooperation); Aethel and Borog are the civilizations of the __main__ block
Aethel ==   <<"Aethel",   8 * ONE,  7 * ONE,  2 * ONE, 8 * ONE>>
Borog ==    <<"Borog",    4 * ONE,  3 * ONE,  9 * ONE, 2 * ONE>>
Passive ==  <<"Passive",  6 * ONE,  0,        -ONE,    -ONE>>
Friendly == <<"Friendly", 0,        5 * ONE,  0,       5 * ONE>>
Genius ==   <<"Genius",   50 * ONE, 50 * ONE, 4 * ONE, 8 * ONE>>

Warlord ==  <<"Warlord",  50 * ONE, 50 * ONE, 9 * ONE, 0>>

\* the pairs <<civ1, civ2>> the __main__ block is run with: the pair of the
\* source first, then pairs that never interact, that cooperate, that fight
\* or cooperate, that are far apart in strength, and that tie in
\* aggressiveness
Matchups ==
    { <<Aethel, Borog>>,
      <<Passive, Passive>>,
      <<Aethel, Friendly>>,
      <<Genius, Aethel>>,
      <<Borog, Genius>>,
      <<Genius, Passive>>,
      <<Friendly, Genius>>,
      <<Warlord, Borog>> }

\* all the argument tuples Civilization is constructed with
Profiles == {Aethel, Borog, Passive, Friendly, Genius, Warlord}

Construct(p) == NewCivilization(p[1], p[2], p[3], p[4], p[5])

\* values drawn for random.uniform(0.8, 1.2), random.uniform(0.7, 1.3),
\* random.random() and random.sample([civ1, civ2], 2)
Uniform08_12 == {800, 1000, 1200}
Uniform07_13 == {700, 1300}
Random01 == {0, 500, 999}
Sample2 == {<<1, 2>>, <<2, 1>>}

NoCombat == [attacker |-> 0, defender |-> 0,
             attacker_pop_loss |-> 0, attacker_res_loss |-> 0,
             defender_pop_loss |-> 0, defender_res_loss |-> 0]

Init ==
    /\ \E m \in Matchups :
           civ = [i \in Civs |-> IF i = 1 THEN Construct(m[1]) ELSE Construct(m[2])]
    /\ pc = "main"
    /\ num_turns = 0
    /\ turn = 0
    /\ ci = 1
    /\ calls = 0
    /\ lastop = <<0, "none">>
    /\ printed = <<>>
    /\ ops = <<>>
    /\ interaction = "none"
    /\ pre = civ
    /\ combat = NoCombat
    /\ ended = <<>>

\* lines printed by a method call that takes civilization c to d
DeathLine(c, d, reason) ==
    IF c.is_alive /\ ~d.is_alive THEN <<reason>> ELSE <<>>

ConsumeLines(c) ==
    (IF Shortage(c) THEN <<"shortage">> ELSE <<>>)
        \o DeathLine(c, consume_resources(c), "eliminated: starvation")

\* ------------------------------------------- calls made by a caller ----
\* A caller holding the two objects calls one public method on one of them.
CallFrame == UNCHANGED <<num_turns, turn, ci, ops, interaction, pre, combat, ended>>

CallGather(i) ==
    /\ pc = "idle" /\ calls < MaxCalls
    /\ civ' = [civ EXCEPT ![i] = gather_resources(civ[i])]
    /\ lastop' = <<i, "gather_resources">>
    /\ printed' = <<>>
    /\ calls' = calls + 1
    /\ pc' = "idle"
    /\ CallFrame

CallConsume(i) ==
    /\ pc = "idle" /\ calls < MaxCalls
    /\ civ' = [civ EXCEPT ![i] = consume_resources(civ[i])]
    /\ lastop' = <<i, "consume_resources">>
    /\ printed' = ConsumeLines(civ[i])
    /\ calls' = calls + 1
    /\ pc' = "idle"
    /\ CallFrame

CallGrow(i) ==
    /\ pc = "idle" /\ calls < MaxCalls
    /\ civ' = [civ EXCEPT ![i] = grow_population(civ[i])]
    /\ lastop' = <<i, "grow_population">>
    /\ printed' = <<>>
    /\ calls' = calls + 1
    /\ pc' = "idle"
    /\ CallFrame

CallDevelop(i) ==
    /\ pc = "idle" /\ calls < MaxCalls
    /\ civ' = [civ EXCEPT ![i] = develop_technology(civ[i])]
    /\ lastop' = <<i, "develop_technology">>
    /\ printed' = <<>>
    /\ calls' = calls + 1
    /\ pc' = "idle"
    /\ CallFrame

CallDie(i) ==
    /\ pc = "idle" /\ calls < MaxCalls
    /\ civ' = [civ EXCEPT ![i] = die(civ[i])]
    /\ lastop' = <<i, "die">>
    /\ printed' = <<"eliminated: elimination">>
    /\ calls' = calls + 1
    /\ pc' = "idle"
    /\ CallFrame


\* ---------------------------------------------------- run_simulation ----
\* turn limits passed by the __main__ block and by other callers
MainTurns == (-1) .. MaxTurns
ApiTurns == 0 .. MaxApiTurns

EnterRun(n) ==
    /\ num_turns' = n
    /\ turn' = 0
    /\ ci' = 1
    /\ pc' = "loop"
    /\ printed' = <<"starting">>
    /\ ops' = <<>>
    /\ interaction' = "not_run"
    /\ pre' = civ
    /\ combat' = NoCombat
    /\ ended' = <<>>
    /\ UNCHANGED <<civ, lastop>>

\* the __main__ block calls run_simulation on the two fresh civilizations
MainRun(n) ==
    /\ pc = "main"
    /\ EnterRun(n)
    /\ UNCHANGED calls

\* another caller calls run_simulation on the objects it holds
CallRun(n) ==
    /\ pc = "idle" /\ calls < MaxCalls
    /\ EnterRun(n)
    /\ calls' = calls + 1

\* for turn in range(1, num_turns + 1)
RunLoop ==
    /\ pc = "loop"
    /\ IF turn < num_turns
       THEN /\ turn' = turn + 1
            /\ ci' = 1
            /\ pc' = "gather"
            /\ printed' = <<"turn">>
            /\ ops' = <<>>
            /\ interaction' = "not_run"
       ELSE /\ pc' = "done"
            /\ printed' = <<>>
            /\ UNCHANGED <<turn, ci, ops, interaction>>
    /\ UNCHANGED <<civ, num_turns, calls, lastop, pre, combat, ended>>

\* position after the internal phase of civilization ci is over
NextCiv == IF ci = 1 THEN "gather" ELSE "check_internal"
NextCi == IF ci = 1 THEN 2 ELSE ci

InternalFrame == UNCHANGED <<num_turns, turn, calls, interaction, pre, combat, ended>>

\* for civ in [civ1, civ2]: "if civ.is_alive: civ.gather_resources()"; a
\* dead civilization is skipped
RunGather ==
    /\ pc = "gather"
    /\ IF civ[ci].is_alive
       THEN /\ civ' = [civ EXCEPT ![ci] = gather_resources(civ[ci])]
            /\ lastop' = <<ci, "gather_resources">>
            /\ ops' = Append(ops, <<ci, "gather_resources">>)
            /\ pc' = "consume"
            /\ UNCHANGED ci
       ELSE /\ pc' = NextCiv /\ ci' = NextCi
            /\ UNCHANGED <<civ, lastop, ops>>
    /\ printed' = <<>>
    /\ InternalFrame

\* civ.consume_resources(), then "if civ.is_alive"
RunConsume ==
    /\ pc = "consume"
    /\ civ' = [civ EXCEPT ![ci] = consume_resources(civ[ci])]
    /\ lastop' = <<ci, "consume_resources">>
    /\ ops' = Append(ops, <<ci, "consume_resources">>)
    /\ printed' = ConsumeLines(civ[ci])
    /\ IF civ'[ci].is_alive
       THEN pc' = "grow" /\ UNCHANGED ci
       ELSE pc' = NextCiv /\ ci' = NextCi
    /\ InternalFrame

RunGrow ==
    /\ pc = "grow"
    /\ civ' = [civ EXCEPT ![ci] = grow_population(civ[ci])]
    /\ lastop' = <<ci, "grow_population">>
    /\ ops' = Append(ops, <<ci, "grow_population">>)
    /\ printed' = <<>>
    /\ pc' = "develop"
    /\ UNCHANGED ci
    /\ InternalFrame

RunDevelop ==
    /\ pc = "develop"
    /\ civ' = [civ EXCEPT ![ci] = develop_technology(civ[ci])]
    /\ lastop' = <<ci, "develop_technology">>
    /\ ops' = Append(ops, <<ci, "develop_technology">>)
    /\ printed' = <<>>
    /\ pc' = NextCiv /\ ci' = NextCi
    /\ InternalFrame

\* "not civ1.is_alive and not civ2.is_alive"
SomeDead_and(cv) == ~cv[1].is_alive /\ ~cv[2].is_alive

SomeDead(cv) == ~cv[1].is_alive \/ ~cv[2].is_alive

\* the internal phase without the check for a dead civilization
RunCheckInternal_no_break ==
    /\ pc = "check_internal"
    /\ pc' = "interact"
    /\ printed' = <<>>
    /\ pre' = civ
    /\ UNCHANGED <<civ, num_turns, turn, ci, calls, lastop, ops, interaction,
                   combat, ended>>

\* "Check if a civ died during internal phase"
RunCheckInternal ==
    /\ pc = "check_internal"
    /\ IF SomeDead(civ)
       THEN /\ pc' = "done"
            /\ printed' = <<"ended: eliminated">>
            /\ ended' = Append(ended, "eliminated")
       ELSE /\ pc' = "interact"
            /\ printed' = <<>>
            /\ UNCHANGED ended
    /\ pre' = civ
    /\ UNCHANGED <<civ, num_turns, turn, ci, calls, lastop, ops, interaction, combat>>


\* ------------------------------------------------- interaction phase ----
combined_agg(cv) == cv[1].aggressiveness + cv[2].aggressiveness
combined_coop(cv) == cv[1].cooperation + cv[2].cooperation

\* "Determine relative strength": stronger_civ, weaker_civ, strength_ratio
\* (stronger = 0 stands for None)
Relative(cv) ==
    Once2(calculate_strength(cv[1]), calculate_strength(cv[2]),
          LAMBDA strength1, strength2 :
            IF strength1 > strength2 /\ strength2 > 0
            THEN [stronger |-> 1, weaker |-> 2, ratio |-> Div(strength1, strength2)]
            ELSE IF strength2 > strength1 /\ strength1 > 0
            THEN [stronger |-> 2, weaker |-> 1, ratio |-> Div(strength2, strength1)]
            ELSE [stronger |-> 0, weaker |-> 0, ratio |-> ONE])

\* the first branch with the comparison turned around
DirectConflict_lt(cv, u) == combined_agg(cv) < Mul(CONFLICT_THRESHOLD_AGG, u)

\* first branch of the conflict check, u = random.uniform(0.8, 1.2)
DirectConflict(cv, u) == combined_agg(cv) > Mul(CONFLICT_THRESHOLD_AGG, u)

\* condition of the elif: a much stronger, significantly more aggressive civ
Opportunity(cv) ==
    Once(Relative(cv),
         LAMBDA rel :
            /\ rel.stronger # 0
            /\ cv[rel.stronger].aggressiveness > cv[rel.weaker].aggressiveness + 3 * ONE
            /\ rel.ratio > STRENGTH_DIFF_AGG_MOD)

\* the draws <<u, r>> for which will_fight becomes True; r = random.random()
\* is drawn (and matters) in the elif branch only
FightDraws(cv) ==
    Once(Opportunity(cv),
         LAMBDA opp :
            Once(IF opp
                 THEN Div(cv[Relative(cv).stronger].aggressiveness, 10 * ONE)
                 ELSE 0,
                 LAMBDA chance :
                    { d \in Uniform08_12 \X Random01 :
                        \/ DirectConflict(cv, d[1])
                        \/ opp /\ d[2] < chance }))

\* "Determine Attacker" with the two assignments exchanged
Attackers_exchanged(cv) ==
    IF cv[1].aggressiveness > cv[2].aggressiveness THEN {<<2, 1>>}
    ELSE IF cv[2].aggressiveness > cv[1].aggressiveness THEN {<<1, 2>>}
    ELSE Sample2

\* "Determine Attacker": the <<attacker, defender>> pairs the code may choose
Attackers(cv) ==
    IF cv[1].aggressiveness > cv[2].aggressiveness THEN {<<1, 2>>}
    ELSE IF cv[2].aggressiveness > cv[1].aggressiveness THEN {<<2, 1>>}
    ELSE Sample2

\* "Calculate loss multipliers" and "Apply losses": the four losses before
\* they are capped, la and ld the two random.uniform(0.7, 1.3)
RawLosses(cv, a, d, la, ld) ==
    Once2(calculate_strength(cv[a]), calculate_strength(cv[d]),
          LAMBDA s_attacker, s_defender :
            LET defender_effective_strength ==
                    Div(s_defender,
                        ONE + Max(0, Div(s_attacker, s_defender + ONE) - ONE))
                attacker_loss_mult ==
                    Mul(Mul(COMBAT_LOSS_BASE,
                            ONE + Div(defender_effective_strength, s_attacker + ONE)),
                        la)
                defender_loss_mult ==
                    Mul(Mul(COMBAT_LOSS_BASE,
                            ONE + Div(s_attacker, defender_effective_strength + ONE)),
                        ld)
            IN  [ attacker |-> a, defender |-> d,
                  attacker_pop_loss |->
                      Mul(Mul(cv[a].population, attacker_loss_mult),
                          Div(ONE, ONE + Mul(cv[a].tech_level, 100))),
                  attacker_res_loss |->
                      Mul(Mul(cv[a].resources, attacker_loss_mult),
                          ONE + Mul(cv[a].tech_level, 100)),
                  defender_pop_loss |->
                      Mul(Mul(cv[d].population, defender_loss_mult),
                          Div(ONE, ONE + Mul(cv[d].tech_level, 100))),
                  defender_res_loss |->
                      Mul(Mul(cv[d].resources, defender_loss_mult),
                          ONE + Mul(cv[d].tech_level, 100)) ])

\* "Cap losses" that caps the population losses only
Losses_res_uncapped(cv, a, d, la, ld) ==
    Once(RawLosses(cv, a, d, la, ld),
         LAMBDA raw :
           [ raw EXCEPT
             !.attacker_pop_loss = Min(Mul(cv[a].population, 900), raw.attacker_pop_loss),
             !.defender_pop_loss = Min(Mul(cv[d].population, 900), raw.defender_pop_loss) ])

\* "Cap losses" that caps the resource losses only
Losses_pop_uncapped(cv, a, d, la, ld) ==
    Once(RawLosses(cv, a, d, la, ld),
         LAMBDA raw :
           [ raw EXCEPT
             !.attacker_res_loss = Min(Mul(cv[a].resources, 900), raw.attacker_res_loss),
             !.defender_res_loss = Min(Mul(cv[d].resources, 900), raw.defender_res_loss) ])

\* "Cap losses": the four losses the combat applies
Losses(cv, a, d, la, ld) ==
    Once(RawLosses(cv, a, d, la, ld),
         LAMBDA raw :
           [ raw EXCEPT
             !.attacker_pop_loss = Min(Mul(cv[a].population, 900), raw.attacker_pop_loss),
             !.attacker_res_loss = Min(Mul(cv[a].resources, 900), raw.attacker_res_loss),
             !.defender_pop_loss = Min(Mul(cv[d].population, 900), raw.defender_pop_loss),
             !.defender_res_loss = Min(Mul(cv[d].resources, 900), raw.defender_res_loss) ])

\* "Check for elimination post-combat"
CombatDeath(c) ==
    IF c.population <= ONE \/ c.resources < 0 THEN die(c) ELSE c

\* both civilizations after the losses l are applied and elimination checked
AfterCombat(cv, l) ==
    LET a == l.attacker
        d == l.defender
        hitA == [cv[a] EXCEPT !.population = cv[a].population - l.attacker_pop_loss,
                              !.resources = cv[a].resources - l.attacker_res_loss]
        hitD == [cv[d] EXCEPT !.population = cv[d].population - l.defender_pop_loss,
                              !.resources = cv[d].resources - l.defender_res_loss]
    IN  [i \in Civs |-> IF i = a THEN CombatDeath(hitA) ELSE CombatDeath(hitD)]

\* cooperation that forgets "civ2.tech_level += tech_bonus2"
AfterCooperation_one_sided(cv) ==
    LET res_bonus(i) == Mul(Mul(cv[i].resources, COOP_RESOURCE_BONUS),
                            Div(cv[Other(i)].cooperation, 10 * ONE))
        tech_bonus(i) == IF i = 2 THEN 0
                         ELSE Mul(COOP_TECH_BONUS,
                                  Div(cv[Other(i)].intelligence, 5 * ONE))
    IN  [i \in Civs |-> [cv[i] EXCEPT !.resources = cv[i].resources + res_bonus(i),
                                      !.tech_level = cv[i].tech_level + tech_bonus(i)]]

\* both civilizations after the cooperation bonuses are applied
AfterCooperation(cv) ==
    LET res_bonus(i) == Mul(Mul(cv[i].resources, COOP_RESOURCE_BONUS),
                            Div(cv[Other(i)].cooperation, 10 * ONE))
        tech_bonus(i) == Mul(COOP_TECH_BONUS,
                             Div(cv[Other(i)].intelligence, 5 * ONE))
    IN  [i \in Civs |-> [cv[i] EXCEPT !.resources = cv[i].resources + res_bonus(i),
                                      !.tech_level = cv[i].tech_level + tech_bonus(i)]]

InteractFrame == UNCHANGED <<num_turns, turn, ci, calls, lastop, pre, ended>>

\* "1. Conflict Check" succeeds: combat resolution
RunConflict ==
    /\ pc = "interact"
    /\ FightDraws(civ) # {}
    /\ \E ad \in Attackers(civ), la \in Uniform07_13, ld \in Uniform07_13 :
         \E l \in {Losses(civ, ad[1], ad[2], la, ld)} :
             /\ combat' = l
             /\ civ' = AfterCombat(civ, l)
    /\ interaction' = "conflict"
    /\ ops' = Append(ops, <<0, "conflict">>)
    /\ printed' = <<"conflict">>
                    \o DeathLine(civ[1], civ'[1], "eliminated: combat losses")
                    \o DeathLine(civ[2], civ'[2], "eliminated: combat losses")
    /\ pc' = "check_end"
    /\ InteractFrame

\* the cooperation check as an "if" of its own instead of an "elif"
RunCooperate_if ==
    /\ pc = "interact"
    /\ \E u2 \in Uniform08_12 :
         combined_coop(civ) > Mul(COOPERATION_THRESHOLD_COOP, u2)
    /\ civ' = AfterCooperation(civ)
    /\ interaction' = "cooperation"
    /\ ops' = Append(ops, <<0, "cooperation">>)
    /\ printed' = <<"cooperation">>
    /\ pc' = "check_end"
    /\ UNCHANGED combat
    /\ InteractFrame

\* "2. Cooperation Check (only if no conflict occurred)"
RunCooperate ==
    /\ pc = "interact"
    /\ FightDraws(civ) # Uniform08_12 \X Random01
    /\ \E u2 \in Uniform08_12 :
         combined_coop(civ) > Mul(COOPERATION_THRESHOLD_COOP, u2)
    /\ civ' = AfterCooperation(civ)
    /\ interaction' = "cooperation"
    /\ ops' = Append(ops, <<0, "cooperation">>)
    /\ printed' = <<"cooperation">>
    /\ pc' = "check_end"
    /\ UNCHANGED combat
    /\ InteractFrame

\* "3. No Interaction"
RunNoInteraction ==
    /\ pc = "interact"
    /\ FightDraws(civ) # Uniform08_12 \X Random01
    /\ \E u2 \in Uniform08_12 :
         ~(combined_coop(civ) > Mul(COOPERATION_THRESHOLD_COOP, u2))
    /\ interaction' = "none"
    /\ ops' = Append(ops, <<0, "none">>)
    /\ printed' = <<"no interaction">>
    /\ pc' = "check_end"
    /\ UNCHANGED <<civ, combat>>
    /\ InteractFrame

\* end conditions that never look at is_alive
RunCheckEnd_no_elimination ==
    /\ pc = "check_end"
    /\ IF turn = num_turns
       THEN /\ pc' = "done"
            /\ printed' = <<"ended: turn limit">>
            /\ ended' = Append(ended, "turn limit")
       ELSE /\ pc' = "loop"
            /\ printed' = <<>>
            /\ UNCHANGED ended
    /\ UNCHANGED <<civ, num_turns, turn, ci, calls, lastop, ops, interaction,
                   pre, combat>>

\* end conditions with the turn limit tested before elimination
RunCheckEnd_limit_first ==
    /\ pc = "check_end"
    /\ IF turn = num_turns
       THEN /\ pc' = "done"
            /\ printed' = <<"ended: turn limit">>
            /\ ended' = Append(ended, "turn limit")
       ELSE IF SomeDead(civ)
       THEN /\ pc' = "done"
            /\ printed' = <<"ended: eliminated">>
            /\ ended' = Append(ended, "eliminated")
       ELSE /\ pc' = "loop"
            /\ printed' = <<>>
            /\ UNCHANGED ended
    /\ UNCHANGED <<civ, num_turns, turn, ci, calls, lastop, ops, interaction,
                   pre, combat>>

\* "Check End Conditions"
RunCheckEnd ==
    /\ pc = "check_end"
    /\ IF SomeDead(civ)
       THEN /\ pc' = "done"
            /\ printed' = <<"ended: eliminated">>
            /\ ended' = Append(ended, "eliminated")
       ELSE IF turn = num_turns
       THEN /\ pc' = "done"
            /\ printed' = <<"ended: turn limit">>
            /\ ended' = Append(ended, "turn limit")
       ELSE /\ pc' = "loop"
            /\ printed' = <<>>
            /\ UNCHANGED ended
    /\ UNCHANGED <<civ, num_turns, turn, ci, calls, lastop, ops, interaction,
                   pre, combat>>

\* run_simulation returns to a caller other than the __main__ block: its
\* parameters and locals are gone, what it printed last stays on the screen
Return ==
    /\ pc = "done" /\ calls > 0
    /\ pc' = "idle"
    /\ printed' = <<>>
    /\ num_turns' = 0
    /\ turn' = 0
    /\ ci' = 1
    /\ ops' = <<>>
    /\ interaction' = "none"
    /\ pre' = civ
    /\ combat' = NoCombat
    /\ UNCHANGED <<civ, calls, lastop, ended>>

\* "Final Summary" of the __main__ block: the verdict line printed after the
\* run, with civilization1 >= civilization2 taken as dominance
FinalLine_ge(cv) ==
    IF cv[1].is_alive /\ cv[2].is_alive
    THEN Once2(calculate_strength(cv[1]), calculate_strength(cv[2]),
               LAMBDA s1, s2 :
                 IF s1 >= s2 THEN "dominant: 1"
                 ELSE IF s2 > s1 THEN "dominant: 2"
                 ELSE "roughly equal")
    ELSE IF cv[1].is_alive THEN "sole survivor: 1"
    ELSE IF cv[2].is_alive THEN "sole survivor: 2"
    ELSE "both eliminated"

\* "Final Summary" of the __main__ block: the verdict line printed after the
\* run
FinalLine(cv) ==
    IF cv[1].is_alive /\ cv[2].is_alive
    THEN Once2(calculate_strength(cv[1]), calculate_strength(cv[2]),
               LAMBDA s1, s2 :
                 IF s1 > s2 THEN "dominant: 1"
                 ELSE IF s2 > s1 THEN "dominant: 2"
                 ELSE "roughly equal")
    ELSE IF cv[1].is_alive THEN "sole survivor: 1"
    ELSE IF cv[2].is_alive THEN "sole survivor: 2"
    ELSE "both eliminated"

\* run_simulation has returned to the __main__ block, which prints the final
\* state and the verdict and exits
Verdict ==
    /\ pc = "done" /\ calls = 0
    /\ pc' = "exit"
    /\ printed' = <<FinalLine(civ)>>
    /\ UNCHANGED <<civ, num_turns, turn, ci, calls, lastop, ops, interaction,
                   pre, combat, ended>>

\* -------------------------------------------------- specifications ----
RunStep ==
    \/ RunLoop
    \/ RunGather
    \/ RunConsume
    \/ RunGrow
    \/ RunDevelop
    \/ RunCheckInternal
    \/ RunConflict
    \/ RunCooperate
    \/ RunNoInteraction
    \/ RunCheckEnd

\* the program as written: __main__ constructs two civilizations and runs
Next ==
    \/ \E n \in MainTurns : MainRun(n)
    \/ RunStep
    \/ Verdict

Spec == Init /\ [][Next]_vars

\* the interpreter keeps executing the program: a step that can be taken is
\* taken
SpecFair == Spec /\ WF_vars(Next)

\* one public method of Civilization applied to c
Method(m, c) ==
    CASE m = "gather_resources"   -> gather_resources(c)
      [] m = "consume_resources"  -> consume_resources(c)
      [] m = "grow_population"    -> grow_population(c)
      [] m = "develop_technology" -> develop_technology(c)
      [] m = "die"                -> die(c)

\* the civilization after the methods of h are called on c, in order
RECURSIVE AfterCalls(_, _)
AfterCalls(h, c) ==
    IF h = <<>> THEN c ELSE AfterCalls(Tail(h), Method(Head(h), c))

\* what a caller did with a civilization before the modelled calls start:
\* nothing; die; five consume_resources (resources exactly 0, nobody lost
\* yet); one develop_technology and four consume_resources (resources below
\* one turn's consumption)
Histories ==
    { <<>>,
      <<"die">>,
      <<"consume_resources", "consume_resources", "consume_resources",
        "consume_resources", "consume_resources">>,
      <<"develop_technology", "consume_resources", "consume_resources",
        "consume_resources", "consume_resources">> }

\* the histories of the two civilizations: both untouched, one of them
\* killed, or the two short of resources in the two different ways
HistoryPairs ==
    { h \in Histories \X Histories :
        \/ h[1] = <<>> /\ h[2] \in {<<>>, <<"die">>}
        \/ h[1] = <<"die">> /\ h[2] = <<>>
        \/ h[1] # h[2] /\ Len(h[1]) = 5 /\ Len(h[2]) = 5 }

ApiMatchups == { <<Aethel, Borog>>, <<Aethel, Friendly>> }

\* a caller that constructs two civilizations, calls their methods in any
\* order and runs simulations on them
InitApi ==
    /\ \E m \in ApiMatchups, h \in HistoryPairs :
           civ = [i \in Civs |-> AfterCalls(h[i], Construct(m[i]))]
    /\ pc = "idle"
    /\ num_turns = 0
    /\ turn = 0
    /\ ci = 1
    /\ calls = 0
    /\ lastop = <<0, "none">>
    /\ printed = <<>>
    /\ ops = <<>>
    /\ interaction = "none"
    /\ pre = civ
    /\ combat = NoCombat
    /\ ended = <<>>

NextApi ==
    \/ \E i \in Civs : CallGather(i)
    \/ \E i \in Civs : CallConsume(i)
    \/ \E i \in Civs : CallGrow(i)
    \/ \E i \in Civs : CallDevelop(i)
    \/ \E i \in Civs : CallDie(i)
    \/ \E n \in ApiTurns : CallRun(n)
    \/ Return
    \/ RunStep

SpecApi == InitApi /\ [][NextApi]_vars


\* the numbers of the model stay where Mul and Div are exact
InRange ==
    \A i \in Civs :
        /\ 0 <= civ[i].population /\ civ[i].population < 100000 * ONE
        /\ 0 <= civ[i].resources /\ civ[i].resources < 100000 * ONE
        /\ 0 <= civ[i].tech_level /\ civ[i].tech_level < 100 * ONE
        /\ calculate_strength(civ[i]) < HUGE

\* ------------------------------------------------------------ claims ----

\* C1: dead is a terminal sink: a step taken while a civilization is dead,
\* be it a call of gather_resources, consume_resources, grow_population,
\* develop_technology or die on either civilization or a step of
\* run_simulation, leaves that civilization's population, resources,
\* tech_level and is_alive as they were, so it stays dead.
C1_DeadIsSink ==
    [][\A i \in Civs : ~civ[i].is_alive => civ'[i] = civ[i]]_vars

\* a dead civilization on which the caller called grow_population and over
\* which a run of the simulation went to its end
C1_Witness ==
    \E i \in Civs :
        /\ ~civ[i].is_alive
        /\ lastop = <<i, "grow_population">>
        /\ pc = "idle"
        /\ ended = <<"eliminated">>

\* C2: in every reachable state a civilization that is not alive has
\* population 0, resources 0 and tech_level 0.
C2_DeadIsZero ==
    \A i \in Civs :
        ~civ[i].is_alive =>
            civ[i].population = 0 /\ civ[i].resources = 0 /\ civ[i].tech_level = 0

\* a civilization that has just starved to death
C2_Witness ==
    \E i \in Civs :
        /\ ~civ[i].is_alive
        /\ lastop = <<i, "consume_resources">>
        /\ printed = <<"shortage", "eliminated: starvation">>

\* C3: right after consume_resources() has returned, the resources of the
\* civilization it was called on are >= 0.
C3_ResourcesNonNegative ==
    \A i \in Civs :
        lastop = <<i, "consume_resources">> => civ[i].resources >= 0

\* consume_resources() met a shortage the civilization survived: resources
\* clamped to 0, part of the population lost
C3_Witness ==
    \E i \in Civs :
        /\ lastop = <<i, "consume_resources">>
        /\ printed = <<"shortage">>
        /\ civ[i].is_alive
        /\ civ[i].resources = 0


\* C4: combat loss cap: when a combat has been resolved, the population loss
\* and the resource loss subtracted from the attacker and from the defender
\* are each at most 90% of that side's population and resources before the
\* combat, whatever the two loss draws; a side that survives keeps exactly
\* what the loss leaves.
C4_CombatLossCap ==
    (pc = "check_end" /\ interaction = "conflict") =>
        LET a == combat.attacker
            d == combat.defender
        IN  /\ {a, d} = Civs
            /\ 10 * combat.attacker_pop_loss <= 9 * pre[a].population
            /\ 10 * combat.attacker_res_loss <= 9 * pre[a].resources
            /\ 10 * combat.defender_pop_loss <= 9 * pre[d].population
            /\ 10 * combat.defender_res_loss <= 9 * pre[d].resources
            /\ civ[a].is_alive =>
                 /\ civ[a].population = pre[a].population - combat.attacker_pop_loss
                 /\ civ[a].resources = pre[a].resources - combat.attacker_res_loss
            /\ civ[d].is_alive =>
                 /\ civ[d].population = pre[d].population - combat.defender_pop_loss
                 /\ civ[d].resources = pre[d].resources - combat.defender_res_loss

\* a combat in which the cap decided the attacker's population loss
C4_Witness ==
    /\ pc = "check_end" /\ interaction = "conflict"
    /\ combat.attacker_pop_loss = Mul(pre[combat.attacker].population, 900)
    /\ civ[combat.attacker].is_alive

PositiveTraits ==
    \A i \in Civs :
        /\ civ[i].intelligence > 0 /\ civ[i].tech_rate > 0
        /\ civ[i].aggressiveness > 0 /\ civ[i].cooperation > 0

\* C5 as stated: when cooperation has triggered between two civilizations
\* with positive traits, the resources and the tech_level of both are
\* strictly greater than just before the cooperation step.
C5_StrictlyBeneficial ==
    (pc = "check_end" /\ interaction = "cooperation" /\ PositiveTraits) =>
        \A i \in Civs :
            /\ civ[i].resources > pre[i].resources
            /\ civ[i].tech_level > pre[i].tech_level

\* C5 as amended: when cooperation has triggered between two civilizations
\* with positive traits, the tech_level of both is strictly greater than
\* before, no resources have decreased, and the resources of a civilization
\* are strictly greater than before exactly when it had resources > 0.
C5_CoopBenefit ==
    (pc = "check_end" /\ interaction = "cooperation" /\ PositiveTraits) =>
        \A i \in Civs :
            /\ civ[i].tech_level > pre[i].tech_level
            /\ civ[i].resources >= pre[i].resources
            /\ (civ[i].resources > pre[i].resources) <=> (pre[i].resources > 0)

\* a cooperation between one civilization that had spent all its resources
\* on research and one that had not
C5_Witness ==
    /\ pc = "check_end" /\ interaction = "cooperation" /\ PositiveTraits
    /\ \E i \in Civs :
           /\ pre[i].resources = 0
           /\ civ[i].resources = 0
           /\ civ[Other(i)].resources > pre[Other(i)].resources

ScenarioA ==
    \A i \in Civs : civ[i].aggressiveness = 0 /\ civ[i].cooperation = 0

\* C6: when both civilizations have aggressiveness 0 and cooperation 0,
\* every step of a run leaves both alive, lowers no tech_level and resolves
\* no interaction as conflict or cooperation, and a run with a positive turn
\* limit ends at that limit with the turn-limit reason.
C6_ScenarioA ==
    [][ScenarioA =>
          /\ \A i \in Civs :
                 /\ civ'[i].is_alive
                 /\ civ'[i].tech_level >= civ[i].tech_level
          /\ interaction' \notin {"conflict", "cooperation"}
          /\ (pc' = "done" /\ num_turns' >= 1) =>
                 (turn' = num_turns' /\ ended' = <<"turn limit">>)]_vars

\* two such civilizations at the end of a run of several turns, their
\* tech_level grown
C6_Witness ==
    /\ ScenarioA
    /\ pc = "done" /\ turn = num_turns /\ num_turns >= 2
    /\ interaction = "none"
    /\ \A i \in Civs : civ[i].tech_level > INITIAL_TECH_LEVEL

CivOps(i) == SelectSeq(ops, LAMBDA o : o[1] = i)

FullPhase(i) ==
    << <<i, "gather_resources">>, <<i, "consume_resources">>,
       <<i, "grow_population">>, <<i, "develop_technology">> >>

StarvedPhase(i) == << <<i, "gather_resources">>, <<i, "consume_resources">> >>

\* the methods of the internal phase were called in the order of the source
PhaseOrder ==
    /\ ops = CivOps(1) \o CivOps(2)
    /\ \A i \in Civs :
           IF civ[i].is_alive
           THEN CivOps(i) = FullPhase(i)
           ELSE CivOps(i) \in {<<>>, StarvedPhase(i)}

\* C7: at the end of the internal phase of every turn, civilization 1 and
\* then civilization 2 have each executed gather_resources,
\* consume_resources, grow_population, develop_technology in this order if
\* alive, and at most gather_resources, consume_resources if dead; and when
\* a civilization is dead at that point, the next step ends the simulation
\* in the same turn without running the interaction phase.
C7_EconomicPhase ==
    [][/\ (pc' = "check_internal") => PhaseOrder'
       /\ (pc = "check_internal" /\ SomeDead(civ)) =>
              /\ pc' = "done"
              /\ turn' = turn
              /\ interaction' = "not_run"
              /\ ops' = ops
              /\ civ' = civ
              /\ ended' = <<"eliminated">>]_vars

\* a run that stopped after the internal phase of its first turn: the living
\* civilization did its four steps, the dead one none
C7_Witness ==
    /\ pc = "done" /\ turn = 1 /\ interaction = "not_run"
    /\ ended = <<"eliminated">>
    /\ \E i \in Civs :
           /\ civ[i].is_alive /\ ~civ[Other(i)].is_alive
           /\ ops = FullPhase(i)

AllDraws == Uniform08_12 \X Random01

\* C8: after the interaction phase of a turn exactly one of conflict,
\* cooperation and no interaction has been resolved. A conflict was decided
\* by some draw and gave no bonus (no tech_level or resources grew); a
\* cooperation happened only with a draw for which the conflict decision
\* was false and took no combat loss (no population changed, no resources
\* shrank); no interaction left both civilizations unchanged.
C8_Exclusive ==
    (pc = "check_end") =>
        /\ SelectSeq(ops, LAMBDA o : o[1] = 0) = << <<0, interaction>> >>
        /\ interaction \in {"conflict", "cooperation", "none"}
        /\ (interaction = "conflict") =>
               /\ FightDraws(pre) # {}
               /\ \A i \in Civs :
                      /\ civ[i].tech_level <= pre[i].tech_level
                      /\ civ[i].resources <= pre[i].resources
        /\ (interaction = "cooperation") =>
               /\ FightDraws(pre) # AllDraws
               /\ \A i \in Civs :
                      /\ civ[i].population = pre[i].population
                      /\ civ[i].resources >= pre[i].resources
        /\ (interaction = "none") =>
               /\ FightDraws(pre) # AllDraws
               /\ civ = pre

\* a cooperation in a turn in which other draws would have led to conflict
C8_Witness ==
    /\ pc = "check_end" /\ interaction = "cooperation"
    /\ FightDraws(pre) # {}
    /\ \E i \in Civs : civ[i].tech_level > pre[i].tech_level

\* C9: a run with a positive turn limit N terminates; its turn index never
\* exceeds N; it has ended only if a civilization is dead or turn N is
\* complete; and once a civilization is dead no further turn starts.
C9_Termination ==
    /\ [](num_turns >= 1 =>
            /\ turn <= num_turns
            /\ (pc = "done") => (SomeDead(civ) \/ turn = num_turns))
    /\ [][SomeDead(civ) => turn' = turn]_vars
    /\ (num_turns >= 1) ~> (pc \in {"done", "exit"})

\* a run ended by an elimination before its turn limit
C9_Witness ==
    /\ pc = "done" /\ SomeDead(civ)
    /\ 1 <= turn /\ turn < num_turns

\* C10: a finished run with a positive turn limit N has reported exactly one
\* end reason: the turn limit only if both civilizations are alive and turn
\* N is complete, elimination whenever a civilization is dead, also when it
\* died in turn N.
C10_EndReason ==
    (pc = "done" /\ num_turns >= 1) =>
        /\ ended \in {<<"eliminated">>, <<"turn limit">>}
        /\ (ended = <<"turn limit">>) => (~SomeDead(civ) /\ turn = num_turns)
        /\ SomeDead(civ) => (ended = <<"eliminated">>)

\* a run in which a civilization died in the very last turn
C10_Witness ==
    /\ pc = "done" /\ SomeDead(civ)
    /\ turn = num_turns
    /\ ended = <<"eliminated">>

\* C11: a run requested with a turn limit <= 0 is rejected before the loop
\* starts: it never reaches the loop of run_simulation, never returns as a
\* completed run, and leaves both civilizations as they were.
C11_ConfigRejected ==
    (pc # "main" /\ num_turns <= 0) =>
        /\ pc \notin {"loop", "done", "exit"}
        /\ civ = pre

\* the step is a call of method m on civilization i, made by a caller or by
\* run_simulation
MethodStep(i, m) ==
    \/ /\ pc = "idle" /\ pc' = "idle" /\ calls' = calls + 1
       /\ lastop' = <<i, m>>
    \/ /\ pc \in {"gather", "consume", "grow", "develop"}
       /\ ci = i /\ civ[i].is_alive
       /\ lastop' = <<i, m>> /\ Len(ops') = Len(ops) + 1

\* C12: starvation: when consume_resources() is called on a living
\* civilization and population * POP_RESOURCE_COST exceeds its resources,
\* the population it loses is min(population, deficit / POP_RESOURCE_COST *
\* 1.5) with deficit the amount missing; a living civilization with positive
\* population and resources 0 loses its whole population and is dead after
\* the call.
C12_Starvation ==
    [][\A i \in Civs :
        (MethodStep(i, "consume_resources") /\ civ[i].is_alive) =>
            LET missing == (civ[i].population * POP_RESOURCE_COST) \div ONE
                               - civ[i].resources
                lost == civ[i].population - civ'[i].population
            IN  /\ (missing > 0) =>
                       \/ lost = civ[i].population
                            /\ ((missing * 10) * 3) \div 2 >= civ[i].population
                       \/ lost = ((missing * 10) * 3) \div 2
                            /\ lost < civ[i].population
                /\ (civ[i].resources = 0 /\ civ[i].population > 0) =>
                       /\ ~civ'[i].is_alive
                       /\ lost = civ[i].population]_vars

\* one civilization has starved to death from resources 0 and the other has
\* just lost part of its population to a shortage it survived
C12_Witness ==
    \E i \in Civs :
        /\ pc = "idle" /\ calls = 2
        /\ ~civ[Other(i)].is_alive
        /\ lastop = <<i, "consume_resources">>
        /\ printed = <<"shortage">>
        /\ civ[i].is_alive
        /\ 0 < civ[i].population /\ civ[i].population < INITIAL_POPULATION

\* C13: calculate_strength() is 0 exactly for a dead civilization, and while
\* a civilization stays alive its strength moves strictly with its
\* population when tech_level stays the same and strictly with its
\* tech_level when the population stays the same.
C13_Strength ==
    /\ [](\A i \in Civs : (calculate_strength(civ[i]) = 0) <=> ~civ[i].is_alive)
    /\ [][\A i \in Civs :
            (civ[i].is_alive /\ civ'[i].is_alive) =>
                LET s == calculate_strength(civ[i])
                    t == calculate_strength(civ'[i])
                IN  /\ (civ'[i].tech_level = civ[i].tech_level
                          /\ civ'[i].population > civ[i].population) => t > s
                    /\ (civ'[i].tech_level = civ[i].tech_level
                          /\ civ'[i].population < civ[i].population) => t < s
                    /\ (civ'[i].population = civ[i].population
                          /\ civ'[i].tech_level > civ[i].tech_level) => t > s
                    /\ (civ'[i].population = civ[i].population
                          /\ civ'[i].tech_level < civ[i].tech_level) => t < s]_vars

\* next to a dead civilization of strength 0, a living one whose strength
\* has grown with the tech_level develop_technology just gave it
C13_Witness ==
    \E i \in Civs :
        /\ ~civ[Other(i)].is_alive /\ calculate_strength(civ[Other(i)]) = 0
        /\ civ[i].is_alive
        /\ lastop = <<i, "develop_technology">>
        /\ civ[i].population = INITIAL_POPULATION
        /\ civ[i].tech_level > INITIAL_TECH_LEVEL
        /\ calculate_strength(civ[i]) > INITIAL_POPULATION


\* C14: in every state, after any operation of a caller or of a run, a
\* living civilization's population and tech_level are not negative.
C14_NonNegative ==
    \A i \in Civs :
        civ[i].is_alive => (civ[i].population >= 0 /\ civ[i].tech_level >= 0)

\* a civilization that came out of a combat alive with fewer people
C14_Witness ==
    /\ pc = "check_end" /\ interaction = "conflict"
    /\ \E i \in Civs :
           /\ civ[i].is_alive
           /\ 0 < civ[i].population /\ civ[i].population < pre[i].population
           /\ civ[i].tech_level > 0

\* C15: construction: each trait is the constructor's argument raised to its
\* minimum (intelligence 1, tech_rate 0.1, aggressiveness 0, cooperation 0),
\* independently of the others; a new civilization is alive with population
\* 1000, resources 500 and tech_level 1.0; no step changes the name or a
\* trait.
C15_Construction ==
    /\ [](\A i \in Civs : \E p \in Profiles :
            /\ civ[i].name = p[1]
            /\ civ[i].intelligence = (IF p[2] < ONE THEN ONE ELSE p[2])
            /\ civ[i].tech_rate = (IF p[3] < 100 THEN 100 ELSE p[3])
            /\ civ[i].aggressiveness = (IF p[4] < 0 THEN 0 ELSE p[4])
            /\ civ[i].cooperation = (IF p[5] < 0 THEN 0 ELSE p[5]))
    /\ [](pc = "main" =>
            \A i \in Civs :
                /\ civ[i].is_alive
                /\ civ[i].population = 1000 * ONE
                /\ civ[i].resources = 500 * ONE
                /\ civ[i].tech_level = ONE)
    /\ [][\A i \in Civs :
            /\ civ'[i].name = civ[i].name
            /\ civ'[i].intelligence = civ[i].intelligence
            /\ civ'[i].tech_rate = civ[i].tech_rate
            /\ civ'[i].aggressiveness = civ[i].aggressiveness
            /\ civ'[i].cooperation = civ[i].cooperation]_vars

\* a civilization constructed with tech_rate 0, aggressiveness -1 and
\* cooperation -1 and an intelligence above the minimum, after two turns
C15_Witness ==
    /\ pc = "check_end" /\ turn >= 2
    /\ \E i \in Civs :
           /\ civ[i].name = "Passive"
           /\ civ[i].intelligence = 6 * ONE
           /\ civ[i].tech_rate = 100
           /\ civ[i].aggressiveness = 0
           /\ civ[i].cooperation = 0
           /\ civ[i].population > INITIAL_POPULATION

\* C16: attacker selection: after a conflict the attacker and the defender
\* are the two distinct civilizations, and the attacker is the one of
\* strictly greater aggressiveness whenever the two values differ.
C16_Attacker ==
    (pc = "check_end" /\ interaction = "conflict") =>
        /\ {combat.attacker, combat.defender} = Civs
        /\ combat.attacker # combat.defender
        /\ \A i \in Civs :
               (pre[i].aggressiveness > pre[Other(i)].aggressiveness) =>
                   (combat.attacker = i /\ combat.defender = Other(i))

\* a conflict of two equally aggressive civilizations in which the second
\* one was drawn as the attacker
C16_Witness ==
    /\ pc = "check_end" /\ interaction = "conflict"
    /\ pre[1].aggressiveness = pre[2].aggressiveness
    /\ combat.attacker = 2 /\ combat.defender = 1

\* C17: dominance verdict of the final summary: with both civilizations
\* alive, civilization 1 is named dominant iff s1 > s2, civilization 2 iff
\* s2 > s1, and "roughly equal" is printed iff s1 = s2; with exactly one
\* alive that one is the sole survivor; with none alive both are reported
\* eliminated.
C17_Verdict ==
    (pc = "exit") =>
        LET s1 == calculate_strength(civ[1])
            s2 == calculate_strength(civ[2])
            a1 == civ[1].is_alive
            a2 == civ[2].is_alive
        IN  /\ Len(printed) = 1
            /\ (a1 /\ a2) =>
                   /\ (printed[1] = "dominant: 1") <=> (s1 > s2)
                   /\ (printed[1] = "dominant: 2") <=> (s2 > s1)
                   /\ (printed[1] = "roughly equal") <=> (s1 = s2)
            /\ (a1 /\ ~a2) => printed[1] = "sole survivor: 1"
            /\ (a2 /\ ~a1) => printed[1] = "sole survivor: 2"
            /\ (~a1 /\ ~a2) => printed[1] = "both eliminated"

\* two civilizations of equal strength after a run to its turn limit
C17_Witness ==
    /\ pc = "exit" /\ turn = num_turns /\ turn >= 2
    /\ civ[1].is_alive /\ civ[2].is_alive
    /\ calculate_strength(civ[1]) = calculate_strength(civ[2])
    /\ printed = <<"roughly equal">>


C19_CombatResources ==
    (pc = "check_end" /\ interaction = "conflict") =>
        LET a == combat.attacker
            d == combat.defender
        IN  /\ pre[a].resources - combat.attacker_res_loss >= 0
            /\ pre[d].resources - combat.defender_res_loss >= 0
            /\ ~civ[a].is_alive =>
                   pre[a].population - combat.attacker_pop_loss <= ONE
            /\ ~civ[d].is_alive =>
                   pre[d].population - combat.defender_pop_loss <= ONE

\* a defender killed by a combat that left it resources
C19_Witness ==
    /\ pc = "check_end" /\ interaction = "conflict"
    /\ ~civ[combat.defender].is_alive
    /\ pre[combat.defender].resources - combat.defender_res_loss > 0
    /\ pre[combat.defender].population - combat.defender_pop_loss <= ONE

\* C20: frame conditions on a living civilization: gather_resources changes
\* its resources only; grow_population its population only, and nothing when
\* resources <= 0; develop_technology its resources and tech_level only, and
\* nothing when resources < TECH_RESOURCE_COST, the tech gained being the
\* resources spent / TECH_RESOURCE_COST; none of the three touches the other
\* civilization; cooperation changes no population; combat changes no
\* tech_level of a side that survives; "no interaction" changes nothing.
C20_Frame ==
    [][\A i \in Civs :
        /\ (MethodStep(i, "gather_resources") /\ civ[i].is_alive) =>
               /\ civ'[i] = [civ[i] EXCEPT !.resources = civ'[i].resources]
               /\ civ'[Other(i)] = civ[Other(i)]
        /\ (MethodStep(i, "grow_population") /\ civ[i].is_alive) =>
               /\ civ'[i] = [civ[i] EXCEPT !.population = civ'[i].population]
               /\ (civ[i].resources <= 0) => (civ'[i] = civ[i])
               /\ civ'[Other(i)] = civ[Other(i)]
        /\ (MethodStep(i, "develop_technology") /\ civ[i].is_alive) =>
               /\ civ'[i] = [civ[i] EXCEPT !.resources = civ'[i].resources,
                                           !.tech_level = civ'[i].tech_level]
               /\ (civ[i].resources < TECH_RESOURCE_COST) => (civ'[i] = civ[i])
               /\ civ'[i].tech_level - civ[i].tech_level
                      = (civ[i].resources - civ'[i].resources)
                            \div (TECH_RESOURCE_COST \div ONE)
               /\ civ'[Other(i)] = civ[Other(i)]
        /\ (pc = "interact" /\ interaction' = "cooperation") =>
               civ'[i].population = civ[i].population
        /\ (pc = "interact" /\ interaction' = "conflict" /\ civ'[i].is_alive) =>
               civ'[i].tech_level = civ[i].tech_level
        /\ (pc = "interact" /\ interaction' = "none") =>
               civ'[i] = civ[i]]_vars

\* grow_population was called on a living civilization whose resources are
\* 0 and left its population where it was
C20_Witness ==
    \E i \in Civs :
        /\ pc = "idle" /\ calls >= 1
        /\ lastop = <<i, "grow_population">>
        /\ civ[i].is_alive
        /\ civ[i].resources = 0
        /\ civ[i].population > 0


====
